---- MODULE Spec2Model ----
(***************************************************************************)
(* Turn orchestration pipeline of the Stoic voice chat (src/app.py):       *)
(* handle_text and handle_audio, the helpers they call (llm, downsample,   *)
(* text_to_speech) and the two event listeners that feed them the Chatbot  *)
(* value and write their result back to it.                                *)
(*                                                                         *)
(* Texts are sequences of one-character strings, so that str.strip() is    *)
(* computed and not assumed.                                               *)
(***************************************************************************)
EXTENDS Integers, Sequences, FiniteSets, TLC

\* ------------------------------------------------------------------ bounds
\* Number of submissions (listener invocations) explored in one session.
MaxCalls == 2

\* --------------------------------------------------------------- constants
\* The persona text (SYSTEM); its content is opaque to the pipeline.
SYSTEM == <<"S">>

\* The fallback Turn appended by handle_audio's except branch.
FALLBACK_USER ==
    <<"A", "u", "d", "i", "o", " ", "p", "r", "o", "c", "e", "s", "s", "i",
      "n", "g", " ", "f", "a", "i", "l", "e", "d">>

APOLOGY ==
    <<"I", " ", "a", "p", "o", "l", "o", "g", "i", "z", "e", ",", " ", "b",
      "u", "t", " ", "I", " ", "c", "o", "u", "l", "d", "n", "'", "t", " ",
      "p", "r", "o", "c", "e", "s", "s", " ", "y", "o", "u", "r", " ", "a",
      "u", "d", "i", "o", ".", " ", "P", "l", "e", "a", "s", "e", " ", "t",
      "r", "y", " ", "a", "g", "a", "i", "n", ".">>

FallbackTurn == <<FALLBACK_USER, APOLOGY>>

\* Characters str.strip() removes.
Whitespace == {" ", "\n", "\t"}

\* ------------------------------------------------------------------ inputs
\* What the user can type into the text box (blank ones included).
TextInputs == { <<>>, <<" ">>, <<"h", "i">>, <<" ", "h", "i">> }

\* What the Audio component hands over: no recording, or a file path.
NoFile == "none"
FileInputs == { NoFile, "clip" }

\* What the transcription service can return as .text.
Transcripts == { <<>>, <<" ">>, <<"y", "o">> }

\* What the chat completion can carry as message.content.
Completions == { <<"o", "k">>, <<" ", "o", "k", "\n">>, <<" ">> }

\* The two listeners of create_interface that carry the Chatbot value.
Slots == { "text", "audio" }

\* ----------------------------------------------------------- pure helpers
RECURSIVE LStrip(_)
LStrip(s) ==
    IF s = <<>> THEN s
    ELSE IF Head(s) \in Whitespace THEN LStrip(Tail(s)) ELSE s

RECURSIVE RStrip(_)
RStrip(s) ==
    IF s = <<>> THEN s
    ELSE IF s[Len(s)] \in Whitespace THEN RStrip(SubSeq(s, 1, Len(s) - 1)) ELSE s

\* Defective variant: nothing is stripped.
StripNone(s) == s

\* str.strip()
Strip(s) == RStrip(LStrip(s))

\* Defective variant: everything is true.
TruthyAlways(x) == TRUE

\* Python truthiness of a str / list: empty is false.
Truthy(x) == x # <<>>

\* Defective variant: every call starts from a fresh list.
OrEmptyFresh(h) == <<>>

\* `hist or []`
OrEmpty(h) == IF Truthy(h) THEN h ELSE <<>>

\* `hist or []` yields the caller's own list object exactly when it is truthy.
SameObject(h) == Truthy(h)

IsPrefix(s, t) == Len(s) <= Len(t) /\ SubSeq(t, 1, Len(s)) = s

\* Defective variants of the append: the stored input stripped; the Turn put
\* in front.
AppendTurnStripped(h, u, a) == Append(h, <<Strip(u), a>>)

AppendTurnFront(h, u, a) == <<<<u, a>>>> \o h

\* hist.append((u, a))
AppendTurn(h, u, a) == Append(h, <<u, a>>)

\* llm: the messages sent to the chat completion.
RECURSIVE HistMsgs(_)
HistMsgs(h) ==
    IF h = <<>> THEN <<>>
    ELSE << [role |-> "user", content |-> Head(h)[1]],
            [role |-> "assistant", content |-> Head(h)[2]] >> \o HistMsgs(Tail(h))

\* Defective variant of the prompt: the prior Turns are left out.
BuildMsgsNoHistory(msg, h) ==
    << [role |-> "system", content |-> SYSTEM],
       [role |-> "user", content |-> msg] >>

BuildMsgs(msg, h) ==
    << [role |-> "system", content |-> SYSTEM] >> \o HistMsgs(h)
        \o << [role |-> "user", content |-> msg] >>

\* ------------------------------------------------------------------- state
VARIABLES
    chat,        \* value of the Chatbot component: the session's history
    loc,         \* per listener: position and locals of its running handler
    configured,  \* ELEVENLABS_API_KEY is set
    ncalls,      \* submissions made so far
    arrived      \* per submission, in arrival order: the Turns its pass appended

vars == <<chat, loc, configured, ncalls, arrived>>

None == "None"

\* A listener with no handler running.
Idle ==
    [ pc |-> "idle",
      arg |-> <<>>,            \* the list object the caller passed as hist
      alias |-> FALSE,         \* local hist is that same object
      h0 |-> <<>>,             \* its content when the call was made
      hist |-> <<>>,           \* local hist
      q |-> <<>>,              \* handle_text: q
      file |-> NoFile,         \* handle_audio: file
      speak |-> FALSE,         \* speak_enabled
      txt |-> <<>>,            \* handle_audio: txt
      ans |-> <<>>,            \* ans
      audio_response |-> None, \* audio_response
      spoken |-> <<>>,         \* "text" of the synthesis request, if one was sent
      tmp |-> "none",          \* downsampled_file: none / exists / removed
      trace |-> <<>>,          \* capabilities invoked by this pass, in order
      msgs |-> <<>>,           \* messages sent to the chat completion
      failed |-> {},           \* stages of this pass that failed
      ticket |-> 0,            \* arrival number of this submission
      rhist |-> <<>>,          \* returned history
      raudio |-> None ]        \* returned audio

Init ==
    /\ chat = <<>>
    /\ loc = [s \in Slots |-> Idle]
    /\ configured \in BOOLEAN
    /\ ncalls = 0
    /\ arrived = <<>>

\* list.append on local hist; the caller's list changes with it when aliased.
PyAppend(l, u, a) ==
    [l EXCEPT !.hist = AppendTurn(l.hist, u, a),
              !.arg = IF l.alias THEN AppendTurn(l.hist, u, a) ELSE l.arg]

\* `return hist, audio` of either handler.
Return(l, h, audio) == [l EXCEPT !.pc = "ret", !.rhist = h, !.raudio = audio]

\* Defective variant of the except branch: it appends nothing.
ExceptBranchSilent(l, stage) ==
    LET e == [l EXCEPT !.failed = l.failed \cup {stage}]
    IN  Return(e, e.hist, None)

\* handle_audio's except branch followed by the final `return hist, None`.
ExceptBranch(l, stage) ==
    LET e == PyAppend([l EXCEPT !.failed = l.failed \cup {stage}],
                      FALLBACK_USER, APOLOGY)
    IN  Return(e, e.hist, None)

\* The Turns a pass has appended so far, filed under its arrival number.
Produced(l) ==
    [arrived EXCEPT ![l.ticket] = SubSeq(l.hist, Len(l.h0) + 1, Len(l.hist))]

\* ----------------------------------------------------------------- actions
\* txt.submit / btnN.click.then: handle_text(q, chat, speak) up to its first
\* remote call.
SubmitText(s) ==
    /\ s = "text"
    /\ loc[s].pc = "idle"
    /\ ncalls < MaxCalls
    /\ \E q \in TextInputs, speak \in BOOLEAN :
         LET l0 == [Idle EXCEPT !.arg = chat, !.h0 = chat, !.q = q,
                                !.speak = speak, !.ticket = Len(arrived) + 1,
                                !.hist = chat]
         IN  loc' = [loc EXCEPT ![s] =
                 IF ~Truthy(Strip(q))
                 THEN Return(l0, l0.arg, None)
                 ELSE [l0 EXCEPT !.hist = OrEmpty(chat),
                                 !.alias = SameObject(chat),
                                 !.pc = "generating"]]
    /\ ncalls' = ncalls + 1
    /\ arrived' = Append(arrived, <<>>)
    /\ UNCHANGED <<chat, configured>>

\* audio_input.change: handle_audio(file, chat, speak) up to downsample.
SubmitAudio(s) ==
    /\ s = "audio"
    /\ loc[s].pc = "idle"
    /\ ncalls < MaxCalls
    /\ \E file \in FileInputs, speak \in BOOLEAN :
         LET l0 == [Idle EXCEPT !.arg = chat, !.h0 = chat, !.file = file,
                                !.speak = speak, !.ticket = Len(arrived) + 1,
                                !.hist = chat]
         IN  loc' = [loc EXCEPT ![s] =
                 IF file = NoFile
                 THEN Return(l0, l0.arg, None)
                 ELSE [l0 EXCEPT !.hist = OrEmpty(chat),
                                 !.alias = SameObject(chat),
                                 !.pc = "normalizing"]]
    /\ ncalls' = ncalls + 1
    /\ arrived' = Append(arrived, <<>>)
    /\ UNCHANGED <<chat, configured>>

\* downsample(file): decode and export to a fresh temp file, or raise.
Downsample(s) ==
    /\ loc[s].pc = "normalizing"
    /\ LET l == [loc[s] EXCEPT !.trace = Append(loc[s].trace, "normalize")]
       IN  \E ok \in BOOLEAN :
             LET n == IF ok
                      THEN [l EXCEPT !.tmp = "exists", !.pc = "transcribing"]
                      ELSE ExceptBranch(l, "normalize")
             IN  /\ loc' = [loc EXCEPT ![s] = n]
                 /\ arrived' = Produced(n)
    /\ UNCHANGED <<chat, configured, ncalls>>

\* client.audio.transcriptions.create(...).text, then `if txt.strip():`.
Transcribe(s) ==
    /\ loc[s].pc = "transcribing"
    /\ LET l == [loc[s] EXCEPT !.trace = Append(loc[s].trace, "transcribe")]
       IN  \/ \E t \in Transcripts :
                /\ loc' = [loc EXCEPT ![s] =
                       [l EXCEPT !.txt = t,
                                 !.pc = IF Truthy(Strip(t)) THEN "generating"
                                        ELSE "cleanup_blank"]]
                /\ arrived' = arrived
           \/ LET n == ExceptBranch(l, "transcribe")
              IN  /\ loc' = [loc EXCEPT ![s] = n]
                  /\ arrived' = Produced(n)
    /\ UNCHANGED <<chat, configured, ncalls>>

\* What follows a completed generation or synthesis in each handler:
\* handle_text returns, handle_audio goes on to remove its temp file.
AfterReply(s, l) ==
    IF s = "text" THEN Return(l, l.hist, l.audio_response)
    ELSE [l EXCEPT !.pc = "cleanup_ok"]

\* Defective variant: after a failed generation the handler waits for a
\* retry that nothing starts.
GenerationFailedWaits(s, l) ==
    [l EXCEPT !.failed = l.failed \cup {"generate"}, !.pc = "retry_wait"]

\* A generation failure: handle_text lets the exception out, handle_audio
\* catches it.
GenerationFailed(s, l) ==
    IF s = "text"
    THEN [l EXCEPT !.failed = l.failed \cup {"generate"}, !.pc = "raised"]
    ELSE ExceptBranch(l, "generate")

\* Defective variant of the gate: speech whatever the checkbox says.
SpeakAlways(l) == TRUE

\* `if speak_enabled:`
SpeakEnabled(l) == l.speak

\* ans = llm(msg, hist); hist.append((msg, ans)); then `if speak_enabled:`.
Generate(s) ==
    /\ loc[s].pc = "generating"
    /\ LET msg == IF s = "text" THEN loc[s].q ELSE loc[s].txt
           l == [loc[s] EXCEPT !.trace = Append(loc[s].trace, "generate"),
                               !.msgs = BuildMsgs(msg, loc[s].hist)]
       IN  \/ \E c \in Completions :
                LET a == PyAppend([l EXCEPT !.ans = Strip(c)], msg, Strip(c))
                    n == IF SpeakEnabled(a) THEN [a EXCEPT !.pc = "synthesizing"]
                         ELSE AfterReply(s, a)
                IN  /\ loc' = [loc EXCEPT ![s] = n]
                    /\ arrived' = Produced(n)
           \/ LET n == GenerationFailed(s, l)
              IN  /\ loc' = [loc EXCEPT ![s] = n]
                  /\ arrived' = Produced(n)
    /\ UNCHANGED <<chat, configured, ncalls>>

\* What the synthesis request can come to: status 200, another status, or an
\* exception (timeout included).
SynthOutcomes == { "200", "status", "exception" }

\* Defective variant: the missing key is not looked at.
TextToSpeechNoKeyCheck(conf, outcome) ==
    IF outcome = "200" THEN "mp3" ELSE None

\* text_to_speech's result for an outcome of the request.
TextToSpeech(conf, outcome) ==
    IF ~conf THEN None
    ELSE IF outcome = "200" THEN "mp3" ELSE None

\* audio_response = text_to_speech(ans)
Synthesize(s) ==
    /\ loc[s].pc = "synthesizing"
    /\ \E o \in SynthOutcomes :
         LET l == IF configured
                  THEN [loc[s] EXCEPT
                          !.trace = Append(loc[s].trace, "synthesize"),
                          !.spoken = loc[s].ans,
                          !.failed = IF o = "200" THEN loc[s].failed
                                     ELSE loc[s].failed \cup {"synthesize"}]
                  ELSE loc[s]
             n == AfterReply(s, [l EXCEPT !.audio_response = TextToSpeech(configured, o)])
         IN  loc' = [loc EXCEPT ![s] = n]
    /\ UNCHANGED <<chat, configured, ncalls, arrived>>

\* `if os.path.exists(downsampled_file): os.remove(downsampled_file)` on the
\* reply path (then `return hist, audio_response`) and on the blank-transcript
\* path (then the final `return hist, None`); os.remove may raise.
Cleanup(s) ==
    /\ loc[s].pc \in {"cleanup_ok", "cleanup_blank"}
    /\ LET l == loc[s]
           done(x) == IF l.pc = "cleanup_ok"
                      THEN Return(x, x.hist, x.audio_response)
                      ELSE Return(x, x.hist, None)
       IN  \E removed \in BOOLEAN :
             LET n == IF l.tmp # "exists" THEN done(l)
                      ELSE IF removed THEN done([l EXCEPT !.tmp = "removed"])
                      ELSE ExceptBranch(l, "cleanup")
             IN  /\ loc' = [loc EXCEPT ![s] = n]
                 /\ arrived' = Produced(n)
    /\ UNCHANGED <<chat, configured, ncalls>>

\* The listener's outputs: a returned history becomes the Chatbot value; a
\* raised exception updates nothing.
Deliver(s) ==
    /\ loc[s].pc \in {"ret", "raised"}
    /\ chat' = IF loc[s].pc = "ret" THEN loc[s].rhist ELSE chat
    /\ loc' = [loc EXCEPT ![s] = Idle]
    /\ UNCHANGED <<configured, ncalls, arrived>>

Next ==
    \/ \E s \in Slots : SubmitText(s)
    \/ \E s \in Slots : SubmitAudio(s)
    \/ \E s \in Slots : Downsample(s)
    \/ \E s \in Slots : Transcribe(s)
    \/ \E s \in Slots : Generate(s)
    \/ \E s \in Slots : Synthesize(s)
    \/ \E s \in Slots : Cleanup(s)
    \/ \E s \in Slots : Deliver(s)

Spec == Init /\ [][Next]_vars

\* The same listeners used one submission after the other: a submission is
\* made only when no handler is running, so each call is given the history
\* the previous one returned.
SerialNext ==
    \/ \E s \in Slots : (\A t \in Slots : loc[t].pc = "idle") /\ SubmitText(s)
    \/ \E s \in Slots : (\A t \in Slots : loc[t].pc = "idle") /\ SubmitAudio(s)
    \/ \E s \in Slots : Downsample(s)
    \/ \E s \in Slots : Transcribe(s)
    \/ \E s \in Slots : Generate(s)
    \/ \E s \in Slots : Synthesize(s)
    \/ \E s \in Slots : Cleanup(s)
    \/ \E s \in Slots : Deliver(s)

SerialSpec == Init /\ [][SerialNext]_vars

\* Every step of a running handler is eventually taken: the local steps
\* because the code runs on, the remote calls because each of them returns or
\* fails (the requests time out), the delivery because the listener ends with
\* the handler.
Step(s) ==
    \/ Downsample(s)
    \/ Transcribe(s)
    \/ Generate(s)
    \/ Synthesize(s)
    \/ Cleanup(s)
    \/ Deliver(s)

Fairness == \A s \in Slots : WF_vars(Step(s))

FairSpec == Spec /\ Fairness

FairSerialSpec == SerialSpec /\ Fairness

TypeOK ==
    /\ ncalls \in 0..MaxCalls
    /\ Len(arrived) = ncalls
    /\ \A s \in Slots : loc[s].pc \in
         {"idle", "normalizing", "transcribing", "generating", "synthesizing",
          "cleanup_ok", "cleanup_blank", "ret", "raised"}

\* ------------------------------------------------------- shared vocabulary
Invoked(l, stage) == \E i \in 1..Len(l.trace) : l.trace[i] = stage

\* The utterance a pass hands to llm: q in handle_text, txt in handle_audio.
Utterance(s) == IF s = "text" THEN loc[s].q ELSE loc[s].txt

AllIdle == \A s \in Slots : loc[s].pc = "idle"

RECURSIVE Flatten(_)
Flatten(ss) == IF ss = <<>> THEN <<>> ELSE Head(ss) \o Flatten(Tail(ss))

\* ------------------------------------------------------------------ claims
\* C1: for a non-blank text input and any prior history h, when generation
\* succeeds with reply r, handle_text returns h with exactly one Turn
\* appended, and that Turn is (input as given, r).
C1_TextAppendsInputAndReply ==
    \A s \in Slots :
        (s = "text" /\ loc[s].pc = "ret" /\ Truthy(Strip(loc[s].q)))
            => /\ Invoked(loc[s], "generate")
               /\ Len(loc[s].rhist) = Len(loc[s].h0) + 1
               /\ loc[s].rhist = Append(loc[s].h0, <<loc[s].q, loc[s].ans>>)

\* C1 witness: handle_text has returned for the input " hi" (which differs
\* from its stripped form) on a non-empty prior history.
C1_Witness ==
    /\ loc["text"].pc = "ret"
    /\ loc["text"].q = <<" ", "h", "i">>
    /\ loc["text"].h0 # <<>>
    /\ Invoked(loc["text"], "generate")

\* C2: when transcription fails, handle_audio returns |h|+1 Turns, the last
\* with the fixed apology as assistant field, the first |h| unchanged, and
\* generation is not invoked.
C2_TranscriptionFailedAppendsApology ==
    \A s \in Slots :
        (s = "audio" /\ loc[s].pc = "ret" /\ "transcribe" \in loc[s].failed)
            => /\ Len(loc[s].rhist) = Len(loc[s].h0) + 1
               /\ loc[s].rhist[Len(loc[s].rhist)][2] = APOLOGY
               /\ SubSeq(loc[s].rhist, 1, Len(loc[s].h0)) = loc[s].h0
               /\ ~Invoked(loc[s], "generate")

\* C2 witness: handle_audio has returned after a failed transcription on a
\* non-empty prior history.
C2_Witness ==
    /\ loc["audio"].pc = "ret"
    /\ "transcribe" \in loc["audio"].failed
    /\ loc["audio"].h0 # <<>>

\* A pass of handle_audio whose transcription returned the empty string.
EmptyTranscript(l) ==
    /\ Invoked(l, "transcribe")
    /\ "transcribe" \notin l.failed
    /\ l.txt = <<>>

\* C3: when transcription returns the empty string, handle_audio returns h
\* unchanged and no audio, and invokes neither generation nor synthesis.
C3_EmptyTranscriptNoChange ==
    \A s \in Slots :
        (s = "audio" /\ loc[s].pc = "ret" /\ EmptyTranscript(loc[s]))
            => /\ loc[s].rhist = loc[s].h0
               /\ loc[s].raudio = None
               /\ ~Invoked(loc[s], "generate")
               /\ ~Invoked(loc[s], "synthesize")

\* A handler has ended after its generation call failed.
EndedOnGenerationFailure(s) ==
    /\ loc[s].pc \in {"ret", "raised"}
    /\ "generate" \in loc[s].failed

\* The pass left the history as it found it.
HistoryUntouched(s) == loc[s].hist = loc[s].h0

\* C4: a generation failure has the same effect on history in handle_text
\* and in handle_audio: both leave it alone, or both append the fallback Turn.
C4_UniformGenerationFailurePolicy ==
    \A s, t \in Slots :
        (EndedOnGenerationFailure(s) /\ EndedOnGenerationFailure(t))
            => (HistoryUntouched(s) <=> HistoryUntouched(t))

\* C5: submissions of one session are processed serially, so once nothing is
\* in flight the history holds the Turns of all submissions in arrival order,
\* none lost, duplicated or out of order.
C5_TurnsOfAllSubmissionsInArrivalOrder ==
    AllIdle => chat = Flatten(arrived)

\* C6: whenever handle_audio returns, the temp file downsample created for it
\* no longer exists.
C6_TempFileRemovedOnReturn ==
    \A s \in Slots :
        (s = "audio" /\ loc[s].pc = "ret") => loc[s].tmp # "exists"

\* C7: a failure to remove the temp file does not change the outcome of the
\* pass: after a successful generation the history gains only the Turn
\* (transcript, reply), after an empty transcript it stays unchanged.
C7_CleanupFailureSwallowed ==
    \A s \in Slots :
        (s = "audio" /\ loc[s].pc = "ret" /\ "cleanup" \in loc[s].failed)
            => loc[s].rhist =
                 IF Invoked(loc[s], "generate")
                 THEN Append(loc[s].h0, <<loc[s].txt, loc[s].ans>>)
                 ELSE loc[s].h0

\* C8: every call changes the history by nothing or by exactly one appended
\* Turn, whatever fails.
C8_AtMostOneTurnPerCall ==
    \A s \in Slots :
        /\ loc[s].pc = "ret"
             => /\ IsPrefix(loc[s].h0, loc[s].rhist)
                /\ Len(loc[s].rhist) - Len(loc[s].h0) \in {0, 1}
        /\ loc[s].pc = "raised" => loc[s].hist = loc[s].h0

\* C9: when generation succeeds and the enabled synthesis fails, the handler
\* still returns the history with the Turn (utterance, reply) appended, and
\* null audio.
C9_SynthesisFailureNotFatal ==
    \A s \in Slots :
        (loc[s].pc = "ret" /\ "synthesize" \in loc[s].failed)
            => /\ loc[s].rhist = Append(loc[s].h0, <<Utterance(s), loc[s].ans>>)
               /\ loc[s].raudio = None

\* C10: the history a call was given is a prefix of the history it holds at
\* every point of the pass and of the history it returns: no Turn is removed,
\* changed or reordered.
C10_HistoryAppendOnly ==
    \A s \in Slots :
        /\ IsPrefix(loc[s].h0, loc[s].hist)
        /\ loc[s].pc = "ret" => IsPrefix(loc[s].h0, loc[s].rhist)

\* C10 witness: a call given a non-empty history has returned a longer one.
C10_Witness ==
    \E s \in Slots :
        /\ loc[s].pc = "ret"
        /\ loc[s].h0 # <<>>
        /\ Len(loc[s].rhist) > Len(loc[s].h0)

\* Both fields of every Turn of h are non-empty.
TurnsNonEmpty(h) ==
    \A i \in 1..Len(h) : h[i][1] # <<>> /\ h[i][2] # <<>>

\* C11: every Turn in the history, whatever the generation capability
\* returned, has a non-empty user utterance and a non-empty assistant
\* utterance.
C11_TurnFieldsNonEmpty ==
    /\ TurnsNonEmpty(chat)
    /\ \A s \in Slots : TurnsNonEmpty(loc[s].hist) /\ TurnsNonEmpty(loc[s].rhist)

\* C12: for a history of n Turns and utterance u, llm sends exactly 2n+2
\* messages: the system message with the persona text, then for each Turn in
\* order its user and its assistant message, then the user message u.
C12_PromptShape ==
    \A s \in Slots :
        Invoked(loc[s], "generate")
            => LET m == loc[s].msgs
                   h == loc[s].h0
                   n == Len(h)
               IN  /\ Len(m) = 2 * n + 2
                   /\ m[1] = [role |-> "system", content |-> SYSTEM]
                   /\ \A i \in 1..n :
                        /\ m[2 * i] = [role |-> "user", content |-> h[i][1]]
                        /\ m[2 * i + 1] = [role |-> "assistant", content |-> h[i][2]]
                   /\ m[2 * n + 2] = [role |-> "user", content |-> Utterance(s)]

\* C12 witness: llm has been called on a history of at least two Turns.
C12_Witness ==
    \E s \in Slots :
        /\ Invoked(loc[s], "generate")
        /\ Len(loc[s].h0) >= 2

\* The prompt m is: system message, the Turns of h in order, user message u.
Reproduces(m, h, u) ==
    /\ Len(m) = 2 * Len(h) + 2
    /\ m[1].role = "system"
    /\ \A i \in 1..Len(h) :
         /\ m[2 * i].role = "user" /\ m[2 * i].content = h[i][1]
         /\ m[2 * i + 1].role = "assistant" /\ m[2 * i + 1].content = h[i][2]
    /\ m[Len(m)].role = "user" /\ m[Len(m)].content = u

\* The Turns appended by the submissions that arrived before pass l.
EarlierTurns(l) == Flatten(SubSeq(arrived, 1, l.ticket - 1))

\* C13: with submissions made one after the other, the prompt of a
\* submission holds the system message, then the Turns of all earlier
\* submissions in order, then the new user message; and the assistant field a
\* pass stores is the reply llm returned to it.
C13_ContextCarriesAcrossTurns ==
    \A s \in Slots :
        /\ Invoked(loc[s], "generate")
             => Reproduces(loc[s].msgs, EarlierTurns(loc[s]), Utterance(s))
        /\ (Invoked(loc[s], "generate") /\ "generate" \notin loc[s].failed)
             => arrived[loc[s].ticket][1] = <<Utterance(s), loc[s].ans>>

\* C13 witness: the second of two sequential handle_text calls has sent its
\* prompt, the first having appended the Turn (" hi", "ok").
C13_Witness ==
    /\ loc["text"].ticket = 2
    /\ Invoked(loc["text"], "generate")
    /\ arrived[1] = << << <<" ", "h", "i">>, <<"o", "k">> >> >>
    /\ Len(loc["text"].msgs) = 4

\* A text that is empty or made of whitespace only.
AllWhitespace(t) == \A i \in 1..Len(t) : t[i] \in {" ", "\n", "\t"}

\* A pass whose input was blank: handle_text with an empty or whitespace-only
\* text, handle_audio without a clip.
BlankInput(s) ==
    /\ loc[s].pc # "idle"
    /\ IF s = "text" THEN AllWhitespace(loc[s].q) ELSE loc[s].file = NoFile

\* C14: a blank input is a no-op: the handler returns at once the history it
\* was given and no audio, appends no Turn and invokes no capability.
C14_BlankInputIsNoOp ==
    \A s \in Slots :
        BlankInput(s)
            => /\ loc[s].pc = "ret"
               /\ loc[s].rhist = loc[s].h0
               /\ loc[s].hist = loc[s].h0
               /\ loc[s].raudio = None
               /\ loc[s].trace = <<>>
               /\ arrived[loc[s].ticket] = <<>>

\* C14 witness: handle_text has returned for a whitespace-only text and
\* handle_audio for no clip.
C14_Witness ==
    /\ loc["text"].pc = "ret" /\ loc["text"].q = <<" ">>
    /\ loc["audio"].pc = "ret" /\ loc["audio"].file = NoFile

\* C15: when downsample fails, handle_audio appends exactly one fallback
\* Turn, the same (marker, apology) Turn as after a failed transcription,
\* calls neither transcription, generation nor synthesis, and returns null
\* audio.
C15_NormalizationFailureFallback ==
    \A s \in Slots :
        /\ (loc[s].pc = "ret" /\ "normalize" \in loc[s].failed)
             => /\ loc[s].rhist = Append(loc[s].h0, FallbackTurn)
                /\ loc[s].trace = <<"normalize">>
                /\ loc[s].raudio = None
                /\ loc[s].tmp = "none"
        /\ (loc[s].pc = "ret" /\ "transcribe" \in loc[s].failed)
             => loc[s].rhist = Append(loc[s].h0, FallbackTurn)

\* C15 witness: handle_audio has returned after downsample failed, on a
\* non-empty history.
C15_Witness ==
    /\ loc["audio"].pc = "ret"
    /\ "normalize" \in loc["audio"].failed
    /\ loc["audio"].h0 # <<>>

\* The pass got a reply from llm.
GenerationSucceeded(l) ==
    Invoked(l, "generate") /\ "generate" \notin l.failed

\* C16: without a synthesis credential text_to_speech returns null, does not
\* raise and sends no request; a pass with speech enabled still appends its
\* Turn and returns null audio.
C16_UnconfiguredSynthesisIsNull ==
    ~configured =>
        \A s \in Slots :
            /\ ~Invoked(loc[s], "synthesize")
            /\ loc[s].spoken = <<>>
            /\ loc[s].audio_response = None
            /\ loc[s].pc = "raised" => ~GenerationSucceeded(loc[s])
            /\ (loc[s].pc = "ret" /\ loc[s].speak /\ GenerationSucceeded(loc[s]))
                 => /\ loc[s].raudio = None
                    /\ Len(loc[s].rhist) > Len(loc[s].h0)
                    /\ loc[s].rhist[Len(loc[s].h0) + 1] = <<Utterance(s), loc[s].ans>>
                    /\ s = "text"
                         => loc[s].rhist = Append(loc[s].h0, <<Utterance(s), loc[s].ans>>)

\* C16 witness: without a credential, handle_text with speech enabled has
\* returned after a successful generation.
C16_Witness ==
    /\ ~configured
    /\ loc["text"].pc = "ret"
    /\ loc["text"].speak
    /\ GenerationSucceeded(loc["text"])

\* The history a returning pass hands back, told from what happened at the
\* stages other than synthesis; speak_enabled does not occur in it.
HistoryApartFromSpeech(s) ==
    LET l == loc[s]
        base == IF GenerationSucceeded(l)
                THEN Append(l.h0, <<Utterance(s), l.ans>>)
                ELSE l.h0
    IN  IF l.failed \cap {"normalize", "transcribe", "generate", "cleanup"} # {}
        THEN Append(base, FallbackTurn)
        ELSE base

\* C17: with speak_enabled false the synthesis capability is never invoked
\* and the audio returned is null, and the history returned is the one
\* returned with speak_enabled true: it depends on the other stages only.
C17_SpeechGatedByFlag ==
    \A s \in Slots :
        /\ (loc[s].pc # "idle" /\ ~loc[s].speak)
             => /\ loc[s].pc # "synthesizing"
                /\ ~Invoked(loc[s], "synthesize")
                /\ loc[s].spoken = <<>>
                /\ loc[s].audio_response = None
                /\ loc[s].pc = "ret" => loc[s].raudio = None
        /\ loc[s].pc = "ret" => loc[s].rhist = HistoryApartFromSpeech(s)

\* C17 witness: with the credential set, one handler has returned a reply
\* with speech disabled and the other with speech enabled and audio.
C17_Witness ==
    /\ configured
    /\ \E s, t \in Slots :
         /\ loc[s].pc = "ret" /\ ~loc[s].speak /\ GenerationSucceeded(loc[s])
         /\ loc[t].pc = "ret" /\ loc[t].speak /\ loc[t].raudio = "mp3"

\* The stages of a pass in their order, for each handler.
StageOrder(s) ==
    IF s = "text" THEN <<"generate", "synthesize">>
    ELSE <<"normalize", "transcribe", "generate", "synthesize">>

\* C18: the capabilities of a pass are invoked in the order normalize,
\* transcribe, generate, synthesize, each at most once and none skipped over;
\* generation only after a non-blank transcript, synthesis only after a
\* successful generation and on the generated reply; handle_text never
\* normalizes or transcribes.
C18_StagesInFixedOrder ==
    \A s \in Slots :
        /\ IsPrefix(loc[s].trace, StageOrder(s))
        /\ (s = "audio" /\ Invoked(loc[s], "generate"))
             => /\ "transcribe" \notin loc[s].failed
                /\ ~AllWhitespace(loc[s].txt)
        /\ loc[s].pc = "synthesizing" => GenerationSucceeded(loc[s])
        /\ Invoked(loc[s], "synthesize")
             => /\ GenerationSucceeded(loc[s])
                /\ loc[s].spoken = loc[s].ans
        /\ s = "text"
             => /\ loc[s].pc \notin {"normalizing", "transcribing",
                                     "cleanup_ok", "cleanup_blank"}
                /\ loc[s].tmp = "none"

\* C18 witness: a pass of handle_audio has gone through all four stages.
C18_Witness ==
    loc["audio"].trace = <<"normalize", "transcribe", "generate", "synthesize">>

\* C19: the handlers never modify the history value the caller passed in:
\* the caller's list holds the same Turns during and after the call as before.
C19_CallerHistoryNotMutated ==
    \A s \in Slots : loc[s].arg = loc[s].h0

\* C20: every pass terminates: a handler that has left Idle eventually is
\* back at Idle, whatever stages fail.
C20_EveryPassTerminates ==
    \A s \in Slots : (loc[s].pc # "idle") ~> (loc[s].pc = "idle")

\* C20 witness: a pass of handle_audio is past two failed stages (synthesis
\* and cleanup) and has returned.
C20_Witness ==
    /\ loc["audio"].pc = "ret"
    /\ {"synthesize", "cleanup"} \subseteq loc["audio"].failed

====
